---- MODULE Spec2Model ----
(***************************************************************************)
(* A model of the DeepCpG training script (scripts/train.py) and of the    *)
(* network assembly helpers (deepcpg/net.py).                              *)
(*                                                                         *)
(* Conventions.  Python None is the string "None".  Python strings that    *)
(* the code formats or searches ('%s_%s' % ..., re.search) are sequences   *)
(* of one-character strings, so that formatting and matching are computed. *)
(* Every sub-system has its own variables and its own specification; the   *)
(* variables of the other sub-systems stay at their idle value.            *)
(***************************************************************************)
EXTENDS Integers, Sequences, FiniteSets, TLC

None == "None"

\* Python None where the code holds a number (idx, batch_size, lr): a value
\* no number of the model takes, since TLC compares numbers with numbers only
NoneNum == -1

(***************************************************************************)
(* Bounds of the model.                                                    *)
(***************************************************************************)
MaxSamples == 2
MaxNbSample == 520
MaxNodes == 3
MaxRegexs == 2
MaxLayers == 2
MaxTargets == 2
MaxWrites == 2
MaxEpochs == 2
MaxPredSamples == 5
MaxBatchSize == 3
MaxOutputs == 2
MaxCallbacks == 2

VARIABLES
    \* read_data / get_sample_weights / check_weights
    rd_pc, rd_data, rd_weights,
    \* App.adjust_batch_size
    ab_pc, ab_nb_sample, ab_fail, ab_ret, ab_tried, ab_exc,
    \* net.copy_weights
    cw_pc, cw_src, cw_dst, cw_regexs, cw_copied, cw_src0, cw_dst0,
    \* net.seq_layers / net.cpg_layers
    sl_pc, sl_params, sl_seq, sl_cpg,
    \* train.build_model / net.build
    bd_pc, bd_params, bd_targets, bd_file, bd_model, bd_exc,
    \* train.eval_io
    ev_pc, ev_loss, ev_z_nan, ev_files, ev_evals,
    \* net.model_to_pickle, model_to_json, model_from_list
    io_pc, io_fs, io_nwrites, io_last, io_fnames, io_ret,
    \* App.main
    mn_pc, mn_opts, mn_env, mn_model, mn_files, mn_cbacks, mn_batch_size,
    mn_fit, mn_epoch, mn_z, mn_log, mn_ret,
    \* predict_loop, write_loop
    pl_pc, pl_fun, pl_nb_sample, pl_batch_size, pl_nb_out, pl_bare, pl_nb_cb,
    pl_batches, pl_index, pl_outs, pl_nwritten, pl_events, pl_ret

rdVars == <<rd_pc, rd_data, rd_weights>>
abVars == <<ab_pc, ab_nb_sample, ab_fail, ab_ret, ab_tried, ab_exc>>
cwVars == <<cw_pc, cw_src, cw_dst, cw_regexs, cw_copied, cw_src0, cw_dst0>>
slVars == <<sl_pc, sl_params, sl_seq, sl_cpg>>
bdVars == <<bd_pc, bd_params, bd_targets, bd_file, bd_model, bd_exc>>
evVars == <<ev_pc, ev_loss, ev_z_nan, ev_files, ev_evals>>
ioVars == <<io_pc, io_fs, io_nwrites, io_last, io_fnames, io_ret>>
mnVars ==
    <<mn_pc, mn_opts, mn_env, mn_model, mn_files, mn_cbacks, mn_batch_size,
      mn_fit, mn_epoch, mn_z, mn_log, mn_ret>>
plVars ==
    <<pl_pc, pl_fun, pl_nb_sample, pl_batch_size, pl_nb_out, pl_bare, pl_nb_cb,
      pl_batches, pl_index, pl_outs, pl_nwritten, pl_events, pl_ret>>
vars == <<rdVars, abVars, cwVars, slVars, bdVars, evVars, ioVars, mnVars, plVars>>

(***************************************************************************)
(* Small helpers.                                                          *)
(***************************************************************************)
Range(s) == {s[i] : i \in 1..Len(s)}

SeqsUpTo(S, n) == UNION {[1..k -> S] : k \in 0..n}

RECURSIVE SumSeq(_)
SumSeq(s) == IF s = <<>> THEN 0 ELSE Head(s) + SumSeq(Tail(s))

(***************************************************************************)
(* train.py: get_sample_weights, check_weights, read_data.                 *)
(*                                                                         *)
(* A label array is a sequence of integers.  A weight is a rational        *)
(* <<numerator, denominator>>; denominator 0 is NaN (the mean of an empty  *)
(* selection).  0 and 1 are exact in float16, the dtype of the weights.    *)
(***************************************************************************)
MASK == -1

Labels == {MASK, 0, 1, 2}
OutputOrder == <<"c0_y", "c1_y">>

ZERO == <<0, 1>>
ONE == <<1, 1>>

\* numpy's == on two floats: NaN equals nothing
WEq(a, b) == a[2] # 0 /\ b[2] # 0 /\ a[1] * b[2] = b[1] * a[2]

\* y[y != io.MASK].mean()
MaskedMean(y) ==
    LET sel == SelectSeq(y, LAMBDA v : v # MASK)
    IN  <<SumSeq(sel), Len(sel)>>

\* (mutant: the mask entry is left out of the dict)
class_weights_nomask(y, weight_classes) ==
    IF weight_classes
    THEN LET t == MaskedMean(y)
         IN  (0 :> t) @@ (1 :> <<t[2] - t[1], t[2]>>)
    ELSE <<>>

\* the dict class_weights of get_sample_weights
class_weights(y, weight_classes) ==
    IF weight_classes
    THEN LET t == MaskedMean(y)
         IN  (MASK :> ZERO) @@ (0 :> t) @@ (1 :> <<t[2] - t[1], t[2]>>)
    ELSE (MASK :> ZERO)

\* sample_weights = np.ones(y.shape); sample_weights[y == k] = v for each k, v
get_sample_weights(y, weight_classes) ==
    LET cw == class_weights(y, weight_classes)
    IN  [i \in 1..Len(y) |-> IF y[i] \in DOMAIN cw THEN cw[y[i]] ELSE ONE]

\* io.to_view wraps every array of the dict in a view of the whole array
to_view(d) == [k \in DOMAIN d |-> [arr |-> d[k], start |-> 0, stop |-> Len(d[k])]]

\* view[:] reads the elements start..stop-1 of the wrapped array
ViewAll(v) == SubSeq(v.arr, v.start + 1, v.stop)

\* the two assertions of check_weights, for every output of the model
check_weights(output_order, y, weights) ==
    \A n \in 1..Len(output_order) :
        LET output == output_order[n]
            yo == ViewAll(y[output])
            w == ViewAll(weights[output])
        IN  /\ \A i \in 1..Len(yo) : yo[i] = MASK => WEq(w[i], ZERO)
            /\ \A i \in 1..Len(yo) : yo[i] # MASK => WEq(w[i], ONE)

\* io.read_hdf: every output has a label array, all of one length
DataSets ==
    UNION {[Range(OutputOrder) -> [1..n -> Labels]] : n \in 0..MaxSamples}

rdInit ==
    /\ rd_pc = "start"
    /\ rd_data \in DataSets
    /\ rd_weights = <<>>

rdIdle ==
    /\ rd_pc = "idle"
    /\ rd_data = <<>>
    /\ rd_weights = <<>>

read_data ==
    /\ rd_pc = "start"
    /\ LET weights == [k \in Range(OutputOrder) |->
                          get_sample_weights(rd_data[k], FALSE)]
           dv == to_view(rd_data)
           wv == to_view(weights)
       IN  /\ rd_data' = dv
           /\ rd_weights' = wv
           /\ rd_pc' = IF check_weights(OutputOrder, dv, wv)
                       THEN "returned" ELSE "AssertionError"

(***************************************************************************)
(* train.py: App.adjust_batch_size.                                        *)
(*                                                                         *)
(* Learning rates are in units of 1e-6.  ab_fail is the set of batch sizes *)
(* for which model.train_on_batch raises (out of GPU memory).              *)
(***************************************************************************)
configs ==
    << <<512, 125>>, <<256, 250>>, <<128, 500>>,
       <<64, 1000>>, <<32, 1000>>, <<16, 1000>> >>

BatchSizes == {configs[i][1] : i \in 1..Len(configs)}

\* (mutant: the trial is not wrapped in try/except)
RECURSIVE adjust_loop_notry(_, _, _, _)
adjust_loop_notry(i, nb_sample, fail, tried) ==
    IF i > Len(configs) THEN [idx |-> NoneNum, tried |-> tried, exc |-> FALSE]
    ELSE LET batch_size == configs[i][1]
         IN  IF batch_size > nb_sample
             THEN adjust_loop_notry(i + 1, nb_sample, fail, tried)
             ELSE IF batch_size \in fail
                  THEN [idx |-> NoneNum, tried |-> Append(tried, batch_size),
                        exc |-> TRUE]
                  ELSE [idx |-> i, tried |-> Append(tried, batch_size),
                        exc |-> FALSE]

\* The loop "for i in range(len(configs))" from index i on.  The result
\* records the index found, the sizes tried and an escaped exception.
RECURSIVE adjust_loop(_, _, _, _)
adjust_loop(i, nb_sample, fail, tried) ==
    IF i > Len(configs) THEN [idx |-> NoneNum, tried |-> tried, exc |-> FALSE]
    ELSE LET batch_size == configs[i][1]
         IN  IF batch_size > nb_sample
             THEN adjust_loop(i + 1, nb_sample, fail, tried)          \* continue
             ELSE IF batch_size \in fail
                  THEN \* except: log 'Batch size %d failed!' and go on
                       adjust_loop(i + 1, nb_sample, fail,
                                   Append(tried, batch_size))
                  ELSE \* idx = i; break
                       [idx |-> i, tried |-> Append(tried, batch_size),
                        exc |-> FALSE]

adjust_batch_size(nb_sample, fail) ==
    LET r == adjust_loop(1, nb_sample, fail, <<>>)
    IN  [ret |-> IF r.idx = NoneNum THEN <<NoneNum, NoneNum>> ELSE configs[r.idx],
         tried |-> r.tried,
         exc |-> r.exc]

abInit ==
    /\ ab_pc = "start"
    /\ ab_nb_sample \in 0..MaxNbSample
    /\ ab_fail \in SUBSET BatchSizes
    /\ ab_ret = <<>>
    /\ ab_tried = <<>>
    /\ ab_exc = FALSE

abIdle ==
    /\ ab_pc = "idle"
    /\ ab_nb_sample = 0
    /\ ab_fail = {}
    /\ ab_ret = <<>>
    /\ ab_tried = <<>>
    /\ ab_exc = FALSE

AdjustBatchSize ==
    /\ ab_pc = "start"
    /\ LET r == adjust_batch_size(ab_nb_sample, ab_fail)
       IN  /\ ab_ret' = r.ret
           /\ ab_tried' = r.tried
           /\ ab_exc' = r.exc
           /\ ab_pc' = IF r.exc THEN "raised" ELSE "returned"
    /\ UNCHANGED <<ab_nb_sample, ab_fail>>

(***************************************************************************)
(* net.py: copy_weights, with utils.filter_regex.                          *)
(*                                                                         *)
(* A node name is a sequence of characters.  A regular expression is a     *)
(* literal with an optional leading '^' (the shape of the defaults '^c_'   *)
(* and '^s_').  A graph is its ordered node names with the weights of each *)
(* node; weights carry a shape, and set_weights raises on a shape that     *)
(* does not fit the layer.                                                 *)
(***************************************************************************)
NodeNames ==
    { <<"c", "_", "c", "1">>, <<"s", "_", "c", "1">>,
      <<"j", "_", "h", "1">>, <<"t", "c", "_", "o">> }

Regexes ==
    { [anchor |-> TRUE, lit |-> <<"c", "_">>],
      [anchor |-> TRUE, lit |-> <<"s", "_">>],
      [anchor |-> FALSE, lit |-> <<"c", "_">>] }

\* the literal lit occurs in x at position k
MatchAt(lit, x, k) ==
    /\ k + Len(lit) - 1 <= Len(x)
    /\ \A j \in 1..Len(lit) : x[k + j - 1] = lit[j]

\* re.search(regex, x) is not None
re_search(regex, x) ==
    IF regex.anchor
    THEN MatchAt(regex.lit, x, 1)
    ELSE \E k \in 1..Len(x) + 1 : MatchAt(regex.lit, x, k)

\* utils.filter_regex(x, regexs): the names of x that some regex matches
filter_regex(x, regexs) ==
    IF \E n \in 1..Len(regexs) : re_search(regexs[n], x) THEN {x} ELSE {}

\* (mutant: the regular expressions are not consulted)
RECURSIVE copy_loop_noregex(_, _, _, _, _)
copy_loop_noregex(i, src, dst, regexs, copied) ==
    IF i > Len(src.order) THEN [dst |-> dst, copied |-> copied, exc |-> FALSE]
    ELSE LET k == src.order[i]
         IN  IF k \in DOMAIN dst
             THEN IF dst[k].shape # src.w[k].shape
                  THEN [dst |-> dst, copied |-> copied, exc |-> TRUE]
                  ELSE copy_loop_noregex(i + 1, src, [dst EXCEPT ![k] = src.w[k]],
                                         regexs, Append(copied, k))
             ELSE copy_loop_noregex(i + 1, src, dst, regexs, copied)

\* "for k, v in src.nodes.items()" from the i-th node on
RECURSIVE copy_loop(_, _, _, _, _)
copy_loop(i, src, dst, regexs, copied) ==
    IF i > Len(src.order) THEN [dst |-> dst, copied |-> copied, exc |-> FALSE]
    ELSE LET k == src.order[i]
         IN  IF filter_regex(k, regexs) # {} /\ k \in DOMAIN dst
             THEN \* dst.nodes[k].set_weights(src.nodes[k].get_weights())
                  IF dst[k].shape # src.w[k].shape
                  THEN [dst |-> dst, copied |-> copied, exc |-> TRUE]
                  ELSE copy_loop(i + 1, src, [dst EXCEPT ![k] = src.w[k]],
                                 regexs, Append(copied, k))
             ELSE copy_loop(i + 1, src, dst, regexs, copied)

copy_weights(src, dst, regexs) == copy_loop(1, src, dst, regexs, <<>>)

\* the node names of a graph, in the order of its nodes dict: no name twice
NodeOrders ==
    {o \in SeqsUpTo(NodeNames, MaxNodes) :
        \A i, j \in 1..Len(o) : i # j => o[i] # o[j]}

\* the weights of node k of graph g: a shape and a value of its own
Weights(g, k, shape) == [shape |-> shape, val |-> <<g, k>>]

SrcGraphs ==
    UNION {{[order |-> o,
             w |-> [k \in Range(o) |-> Weights("src", k, sh[k])]] :
               sh \in [Range(o) -> {1, 2}]} :
           o \in NodeOrders}

DstGraphs ==
    {[k \in S |-> Weights("dst", k, 1)] : S \in SUBSET NodeNames}

cwInit ==
    /\ cw_pc = "start"
    /\ cw_src \in SrcGraphs
    /\ cw_dst \in DstGraphs
    /\ cw_regexs \in SeqsUpTo(Regexes, MaxRegexs)
    /\ cw_copied = <<>>
    /\ cw_src0 = cw_src
    /\ cw_dst0 = cw_dst

cwIdle ==
    /\ cw_pc = "idle"
    /\ cw_src = <<>>
    /\ cw_dst = <<>>
    /\ cw_regexs = <<>>
    /\ cw_copied = <<>>
    /\ cw_src0 = <<>>
    /\ cw_dst0 = <<>>

CopyWeights ==
    /\ cw_pc = "start"
    /\ LET r == copy_weights(cw_src, cw_dst, cw_regexs)
       IN  /\ cw_dst' = r.dst
           /\ cw_copied' = r.copied
           /\ cw_pc' = IF r.exc THEN "raised" ELSE "returned"
    /\ UNCHANGED <<cw_src, cw_regexs, cw_src0, cw_dst0>>

(***************************************************************************)
(* net.py: cpg_layers, seq_layers, joint_layers, target_layers.            *)
(*                                                                         *)
(* A layer list is a sequence of <<name, layer>>; a layer is its class,    *)
(* its first argument and its activation.  A dropout rate or a number of   *)
(* hidden units is None, 0 or positive; "if params.x:" is Python's truth   *)
(* value.  A function that raises returns no list: exc names the           *)
(* exception.                                                              *)
(***************************************************************************)
Truthy(v) == v # NoneNum /\ v # 0

DigitChars == <<"0", "1", "2", "3", "4", "5", "6", "7", "8", "9">>

\* '%d' % n, for n >= 0
RECURSIVE Dec(_)
Dec(n) ==
    IF n < 10 THEN <<DigitChars[n + 1]>>
    ELSE Dec(n \div 10) \o <<DigitChars[(n % 10) + 1]>>

Layer(type, arg, act) == [type |-> type, arg |-> arg, act |-> act]

\* the block "if params.nb_hidden:" shared by the four functions
hidden_block(params) ==
    <<<<<<"h", "1">>, Layer("Dense", params.nb_hidden, "linear")>>>>
    \o (IF params.batch_norm
        THEN <<<<<<"h", "1", "b">>, Layer("BatchNormalization", NoneNum, None)>>>>
        ELSE <<>>)
    \o <<<<<<"h", "1", "a">>, Layer("Activation", NoneNum, params.activation)>>>>
    \o (IF Truthy(params.drop_out)
        THEN <<<<<<"h", "1", "d">>, Layer("Dropout", params.drop_out, None)>>>>
        ELSE <<>>)

\* (mutant: the pooling layer is appended before its convolution)
RECURSIVE conv_blocks_swapped(_, _, _, _, _)
conv_blocks_swapped(l, params, conv, pool, layers) ==
    IF l >= Len(params.nb_filter) THEN [layers |-> layers, exc |-> None]
    ELSE IF l + 1 > Len(params.filter_len) \/ l + 1 > Len(params.pool_len)
         THEN [layers |-> layers, exc |-> "IndexError"]
         ELSE conv_blocks_swapped(l + 1, params, conv, pool,
                  layers
                  \o <<<<<<"p">> \o Dec(l + 1),
                         Layer(pool, params.pool_len[l + 1], None)>>,
                       <<<<"c">> \o Dec(l + 1),
                         Layer(conv, params.nb_filter[l + 1], params.activation)>>>>)

\* "for l in range(nb_layer)" from l on; conv and pool are the layer classes
RECURSIVE conv_blocks(_, _, _, _, _)
conv_blocks(l, params, conv, pool, layers) ==
    IF l >= Len(params.nb_filter) THEN [layers |-> layers, exc |-> None]
    ELSE IF l + 1 > Len(params.filter_len) \/ l + 1 > Len(params.pool_len)
         THEN \* params.filter_len[l] or params.pool_len[l]
              [layers |-> layers, exc |-> "IndexError"]
         ELSE conv_blocks(l + 1, params, conv, pool,
                  layers
                  \o <<<<<<"c">> \o Dec(l + 1),
                         Layer(conv, params.nb_filter[l + 1], params.activation)>>,
                       <<<<"p">> \o Dec(l + 1),
                         Layer(pool, params.pool_len[l + 1], None)>>>>)

\* the body shared by cpg_layers and seq_layers, which differ in the classes
branch_layers(params, conv, pool) ==
    LET first == IF Truthy(params.drop_in)
                 THEN <<<<<<"x", "d">>, Layer("Dropout", params.drop_in, None)>>>>
                 ELSE <<>>
        blocks == conv_blocks(0, params, conv, pool, first)
    IN  IF blocks.exc # None THEN [layers |-> <<>>, exc |-> blocks.exc]
        ELSE [layers |->
                 blocks.layers
                 \o <<<<<<"f", "1">>, Layer("Flatten", NoneNum, None)>>>>
                 \o (IF Truthy(params.drop_out)
                     THEN <<<<<<"f", "1", "d">>,
                              Layer("Dropout", params.drop_out, None)>>>>
                     ELSE <<>>)
                 \o (IF Truthy(params.nb_hidden) THEN hidden_block(params)
                     ELSE <<>>),
              exc |-> None]

cpg_layers(params) == branch_layers(params, "Convolution2D", "MaxPooling2D")

seq_layers(params) == branch_layers(params, "Convolution1D", "MaxPooling1D")

joint_layers(params) == hidden_block(params)

\* (mutant: the output layer is appended only without a hidden layer)
target_layers_noout(params) ==
    IF Truthy(params.nb_hidden) THEN hidden_block(params)
    ELSE <<<<<<"o">>, Layer("Dense", 1, "sigmoid")>>>>

target_layers(params) ==
    (IF Truthy(params.nb_hidden) THEN hidden_block(params) ELSE <<>>)
    \o <<<<<<"o">>, Layer("Dense", 1, "sigmoid")>>>>

\* the parameter sets of a branch; only the lengths of the three lists and
\* the truth values of the options decide the node names
Rates == {NoneNum, 0, 2}

LayerParams ==
    [drop_in : Rates,
     nb_filter : {[i \in 1..n |-> 4] : n \in 0..MaxLayers},
     filter_len : {[i \in 1..n |-> 3] : n \in 0..MaxLayers},
     pool_len : {[i \in 1..n |-> 2] : n \in 0..MaxLayers},
     activation : {"relu"},
     drop_out : Rates,
     nb_hidden : Rates,
     batch_norm : BOOLEAN]

\* the result slot of a function that has not been called yet
NotCalled == [layers |-> <<>>, exc |-> "not called"]

slInit ==
    /\ sl_pc = "start"
    /\ sl_params \in LayerParams
    /\ sl_seq = NotCalled
    /\ sl_cpg = NotCalled

slIdle ==
    /\ sl_pc = "idle"
    /\ sl_params = None
    /\ sl_seq = NotCalled
    /\ sl_cpg = NotCalled

SeqLayers ==
    /\ sl_pc = "start"
    /\ sl_seq = NotCalled
    /\ sl_seq' = seq_layers(sl_params)
    /\ UNCHANGED <<sl_pc, sl_params, sl_cpg>>

CpgLayers ==
    /\ sl_pc = "start"
    /\ sl_cpg = NotCalled
    /\ sl_cpg' = cpg_layers(sl_params)
    /\ UNCHANGED <<sl_pc, sl_params, sl_seq>>

(***************************************************************************)
(* net.py: add_layers, build; train.py: build_model.                       *)
(*                                                                         *)
(* The graph is what build tells it: the inputs, the nodes (name, input    *)
(* names, layer) and the outputs (name, input name), each in the order of  *)
(* the add_input, add_node and add_output calls.  An optional parameter    *)
(* group (params, params.seq, params.cpg, params.joint) is <<>> for None   *)
(* and <<group>> otherwise.                                                *)
(***************************************************************************)
EmptyGraph == [inputs |-> <<>>, nodes |-> <<>>, outputs |-> <<>>]

add_input(model, name, input_shape) ==
    [model EXCEPT !.inputs = Append(@, [name |-> name, shape |-> input_shape])]

add_node(model, name, inputs, layer) ==
    [model EXCEPT !.nodes =
        Append(@, [name |-> name, inputs |-> inputs, layer |-> layer])]

add_output(model, name, input) ==
    [model EXCEPT !.outputs = Append(@, [name |-> name, input |-> input])]

\* '%s_%s' % (a, b)
Fmt(a, b) == a \o <<"_">> \o b

\* (mutant: every node is fed by the nodes the chain started from)
RECURSIVE add_layers_nochain(_, _, _, _)
add_layers_nochain(model, layers, prev_nodes, prefix) ==
    IF layers = <<>>
    THEN [model |-> model, prev_nodes |-> prev_nodes, exc |-> None]
    ELSE IF Len(prev_nodes) = 0
    THEN [model |-> model, prev_nodes |-> prev_nodes, exc |-> "IndexError"]
    ELSE LET cur_node == Fmt(prefix, Head(layers)[1])
             r == add_layers_nochain(
                      add_node(model, cur_node, prev_nodes, Head(layers)[2]),
                      Tail(layers), prev_nodes, prefix)
         IN  IF Len(layers) = 1
             THEN [model |-> r.model, prev_nodes |-> <<cur_node>>, exc |-> None]
             ELSE r

RECURSIVE add_layers(_, _, _, _)
add_layers(model, layers, prev_nodes, prefix) ==
    IF layers = <<>>
    THEN [model |-> model, prev_nodes |-> prev_nodes, exc |-> None]
    ELSE LET cur_node == Fmt(prefix, Head(layers)[1])
             cur_layer == Head(layers)[2]
         IN  IF Len(prev_nodes) > 1
             THEN add_layers(add_node(model, cur_node, prev_nodes, cur_layer),
                             Tail(layers), <<cur_node>>, prefix)
             ELSE IF Len(prev_nodes) = 0
             THEN \* prev_nodes[0]
                  [model |-> model, prev_nodes |-> prev_nodes,
                   exc |-> "IndexError"]
             ELSE add_layers(add_node(model, cur_node, <<prev_nodes[1]>>,
                                      cur_layer),
                             Tail(layers), <<cur_node>>, prefix)

\* one branch of build ("if params.seq:", "if params.cpg:"); st is the state
\* of build: the graph, branch_nodes and the exception raised so far
build_branch(st, group, length, input, shape, layers, prefix) ==
    IF st.exc # None \/ group = <<>> THEN st
    ELSE IF length = NoneNum THEN [st EXCEPT !.exc = "AssertionError"]
    ELSE IF layers.exc # None THEN [st EXCEPT !.exc = layers.exc]
    ELSE LET r == add_layers(add_input(st.model, input, shape),
                             layers.layers, <<input>>, prefix)
         IN  [model |-> r.model,
              branch_nodes |-> st.branch_nodes \o r.prev_nodes,
              exc |-> r.exc]

\* "if params.joint and params.joint.nb_hidden > 0:"
build_joint(st, params) ==
    IF st.exc # None \/ params.joint = <<>> THEN st
    ELSE IF params.joint[1].nb_hidden = NoneNum
    THEN [st EXCEPT !.exc = "TypeError"]              \* None > 0
    ELSE IF params.joint[1].nb_hidden > 0
    THEN LET r == add_layers(st.model, joint_layers(params.joint[1]),
                             st.branch_nodes, <<"j">>)
         IN  [model |-> r.model, branch_nodes |-> r.prev_nodes, exc |-> r.exc]
    ELSE st

\* "for target in targets:"
RECURSIVE build_targets(_, _, _)
build_targets(st, params, targets) ==
    IF st.exc # None \/ targets = <<>> THEN st
    ELSE LET target == Head(targets)
             r == add_layers(st.model, target_layers(params.target),
                             st.branch_nodes, target)
         IN  IF r.exc # None THEN [st EXCEPT !.exc = r.exc]
             ELSE build_targets(
                      [st EXCEPT !.model =
                          add_output(r.model, Fmt(target, <<"y">>),
                                     r.prev_nodes[1])],
                      params, Tail(targets))

\* net.build(params, targets, seq_len, cpg_len, compile=False, nb_unit)
build(params_opt, targets, seq_len, cpg_len, nb_unit) ==
    IF params_opt = <<>>
    THEN [model |-> EmptyGraph, branch_nodes |-> <<>>,
          exc |-> "AttributeError"]                   \* None.seq
    ELSE LET params == params_opt[1]
             st0 == [model |-> EmptyGraph, branch_nodes |-> <<>>, exc |-> None]
             st1 == build_branch(st0, params.seq, seq_len,
                        <<"s", "_", "x">>, <<seq_len, 4>>,
                        IF params.seq = <<>> THEN NotCalled
                        ELSE seq_layers(params.seq[1]), <<"s">>)
             unit == IF nb_unit = NoneNum THEN Len(targets) ELSE nb_unit
             st2 == build_branch(st1, params.cpg, cpg_len,
                        <<"c", "_", "x">>, <<2, unit, cpg_len>>,
                        IF params.cpg = <<>> THEN NotCalled
                        ELSE cpg_layers(params.cpg[1]), <<"c">>)
             st3 == build_joint(st2, params)
         IN  build_targets(st3, params, targets)

\* train.build_model: the lengths are read from the data file
build_model(params_opt, data_file, targets) ==
    LET seq_len == IF data_file.s_x THEN 5 ELSE NoneNum
        nb_unit == IF data_file.c_x THEN 3 ELSE NoneNum
        cpg_len == IF data_file.c_x THEN 7 ELSE NoneNum
    IN  build(params_opt, targets, seq_len, cpg_len, nb_unit)

Opt(S) == {<<>>} \cup {<<x>> : x \in S}

\* the branch parameter sets of the build model: well-formed lists
BuildBranchParams ==
    {p \in LayerParams :
        /\ Len(p.nb_filter) \in {0, MaxLayers}
        /\ Len(p.filter_len) = Len(p.nb_filter)
        /\ Len(p.pool_len) = Len(p.nb_filter)
        /\ p.drop_in = 0 /\ p.batch_norm = FALSE
        /\ p.drop_out # NoneNum /\ p.nb_hidden # NoneNum}

JointParams ==
    [nb_hidden : Rates, batch_norm : {TRUE}, drop_out : {0, 2},
     activation : {"relu"}]

TargetParams ==
    [nb_hidden : {NoneNum, 2}, batch_norm : BOOLEAN, drop_out : {0, 2},
     activation : {"relu"}]

ModelParams ==
    [seq : Opt(BuildBranchParams), cpg : Opt(BuildBranchParams),
     joint : Opt(JointParams), target : TargetParams]

\* target ids, as io.read_targets yields them: no id twice
TargetIds == { <<"c", "0">>, <<"c", "1">>, <<"s", "0">> }

TargetLists ==
    {t \in SeqsUpTo(TargetIds, MaxTargets) :
        \A i, j \in 1..Len(t) : i # j => t[i] # t[j]}

bdInit ==
    /\ bd_pc = "start"
    /\ bd_params \in Opt(ModelParams)
    /\ bd_targets \in TargetLists
    /\ bd_file \in [s_x : BOOLEAN, c_x : BOOLEAN]
    /\ bd_model = EmptyGraph
    /\ bd_exc = None

bdIdle ==
    /\ bd_pc = "idle"
    /\ bd_params = <<>>
    /\ bd_targets = <<>>
    /\ bd_file = None
    /\ bd_model = EmptyGraph
    /\ bd_exc = None

BuildModel ==
    /\ bd_pc = "start"
    /\ LET r == build_model(bd_params, bd_file, bd_targets)
       IN  /\ bd_model' = r.model
           /\ bd_exc' = r.exc
           /\ bd_pc' = IF r.exc = None THEN "returned" ELSE "raised"
    /\ UNCHANGED <<bd_params, bd_targets, bd_file>>

(***************************************************************************)
(* net.py: loss_from_ids; train.py: eval_io.                               *)
(*                                                                         *)
(* A dict is the sequence of its <<key, value>> pairs in insertion order.  *)
(* The name of a loss is a sequence of pieces, 'binary_crossentropy' being *)
(* one piece, so that re.search('binary_crossentropy', v) is computed on   *)
(* the name.  eval_io is given by the calls it makes: the files written    *)
(* and the evaluate calls, in order.                                       *)
(***************************************************************************)
L_mse == <<"mse">>
L_bce == <<"binary_crossentropy">>
L_wbce == <<"weighted_", "binary_crossentropy">>
L_cce == <<"categorical_", "crossentropy">>

Keys(d) == [i \in 1..Len(d) |-> d[i][1]]

\* d[k] = v
DictSet(d, k, v) ==
    IF \E i \in 1..Len(d) : d[i][1] = k
    THEN [i \in 1..Len(d) |-> IF d[i][1] = k THEN <<k, v>> ELSE d[i]]
    ELSE Append(d, <<k, v>>)

\* "for k, v in spec.items(): loss[k] = v"
RECURSIVE DictUpdate(_, _)
DictUpdate(d, items) ==
    IF items = <<>> THEN d
    ELSE DictUpdate(DictSet(d, Head(items)[1], Head(items)[2]), Tail(items))

\* spec is [kind |-> "none"], [kind |-> "str", val |-> name] or
\* [kind |-> "dict", val |-> dict]
loss_from_ids(ids, spec) ==
    LET loss == [i \in 1..Len(ids) |->
                    <<ids[i],
                      IF Len(ids[i]) > 0 /\ ids[i][1] = "s"
                      THEN L_mse ELSE L_bce>>]
    IN  CASE spec.kind = "none" -> loss
          [] spec.kind = "dict" -> DictUpdate(loss, spec.val)
          [] OTHER -> [i \in 1..Len(loss) |-> <<loss[i][1], spec.val>>]

\* (mutant: only the exact name 'binary_crossentropy' is a classification)
is_classification_exact(v) == v = L_bce

\* re.search('binary_crossentropy', v)
is_classification(v) ==
    re_search([anchor |-> FALSE, lit |-> <<"binary_crossentropy">>], v)

\* evaluate(ys, zs, targets, funs=funs, mask=mask), one call
Evaluation(keys, funs, mask) == [keys |-> keys, funs |-> funs, mask |-> mask]

\* z_nan[i]: the i-th prediction array holds a NaN
eval_io(loss, z_nan) ==
    IF z_nan[1] THEN [files |-> <<>>, evals |-> <<>>]
    ELSE LET keys == Keys(loss)
             val(k) == loss[CHOOSE i \in 1..Len(loss) : loss[i][1] = k][2]
             cla == SelectSeq(keys, LAMBDA k : is_classification(val(k)))
             reg == SelectSeq(keys, LAMBDA k : ~is_classification(val(k)))
         IN  [files |->
                 <<"_z.h5">>
                 \o (IF Len(cla) # 0 THEN <<"_cla.csv">> ELSE <<>>)
                 \o (IF Len(reg) # 0 THEN <<"_reg.csv">> ELSE <<>>),
              evals |->
                 (IF Len(cla) # 0
                  THEN <<Evaluation(cla, "eval_funs", MASK)>> ELSE <<>>)
                 \o (IF Len(reg) # 0
                     THEN <<Evaluation(reg, "eval_funs_regress", NoneNum)>>
                     ELSE <<>>)]

\* the output names of a list of targets
OutputIds(targets) == [i \in 1..Len(targets) |-> Fmt(targets[i], <<"y">>)]

\* params.loss is None, one name for all outputs, or a dict on some outputs
LossNames == {L_mse, L_bce, L_wbce}

LossDicts(ids) ==
    UNION {[1..n -> Range(ids) \X {L_mse, L_wbce, L_cce}] : n \in 1..Len(ids)}

\* the loss dicts of a compiled model with the output names ids
ModelLosses(ids) ==
    {loss_from_ids(ids, [kind |-> "none"])}
    \cup {loss_from_ids(ids, [kind |-> "str", val |-> v]) : v \in LossNames}
    \cup {loss_from_ids(ids, [kind |-> "dict", val |-> d]) : d \in LossDicts(ids)}

evInit ==
    /\ ev_pc = "start"
    /\ \E t \in TargetLists :
         /\ t # <<>>
         /\ ev_loss \in ModelLosses(OutputIds(t))
    /\ ev_z_nan \in [1..Len(ev_loss) -> BOOLEAN]
    /\ ev_files = <<>>
    /\ ev_evals = <<>>

evIdle ==
    /\ ev_pc = "idle"
    /\ ev_loss = <<>>
    /\ ev_z_nan = <<>>
    /\ ev_files = <<>>
    /\ ev_evals = <<>>

EvalIO ==
    /\ ev_pc = "start"
    /\ LET r == eval_io(ev_loss, ev_z_nan)
       IN  /\ ev_files' = r.files
           /\ ev_evals' = r.evals
    /\ ev_pc' = "returned"
    /\ UNCHANGED <<ev_loss, ev_z_nan>>

(***************************************************************************)
(* net.py: model_from_json, model_from_pickle, model_from_list,            *)
(* model_to_pickle, model_to_json.                                         *)
(*                                                                         *)
(* A model is its architecture and its weights.  A file is absent, a       *)
(* pickle of a model, the JSON text of an architecture, or the HDF5        *)
(* weights of an architecture.  fnames is a list or a tuple of file names; *)
(* list(fnames) keeps the names.                                           *)
(***************************************************************************)
Paths == {"p1", "p2", "p3"}

Models == {[arch |-> "A1", weights |-> "W1"], [arch |-> "A2", weights |-> "W2"]}

NoModel == [arch |-> None, weights |-> None]

File(kind, arch, weights) == [kind |-> kind, arch |-> arch, weights |-> weights]

Absent == File("absent", None, None)

Loaded(model, exc, how) == [model |-> model, exc |-> exc, how |-> how]

\* pickle.dump(model, f)
model_to_pickle(fs, model, path) ==
    [fs EXCEPT ![path] = File("pickle", model.arch, model.weights)]

\* f.write(model.to_json()); model.save_weights(weights_file, overwrite=True)
model_to_json(fs, model, json_file, weights_file) ==
    LET fs1 == [fs EXCEPT ![json_file] = File("json", model.arch, None)]
    IN  IF weights_file # None
        THEN [fs1 EXCEPT ![weights_file] =
                 File("h5", model.arch, model.weights)]
        ELSE fs1

model_from_json(fs, json_file, weights_file) ==
    IF fs[json_file].kind = "absent"
    THEN Loaded(NoModel, "FileNotFoundError", "json")
    ELSE IF fs[json_file].kind # "json"
    THEN Loaded(NoModel, "ValueError", "json")        \* not a JSON text
    ELSE IF weights_file = None
    THEN Loaded(NoModel, "TypeError", "json")         \* load_weights(None)
    ELSE IF fs[weights_file].kind # "h5"
    THEN Loaded(NoModel, "OSError", "json")           \* no HDF5 file
    ELSE IF fs[weights_file].arch # fs[json_file].arch
    THEN Loaded(NoModel, "Exception", "json")         \* weights do not fit
    ELSE Loaded([arch |-> fs[json_file].arch,
                 weights |-> fs[weights_file].weights], None, "json")

model_from_pickle(fs, pickle_file) ==
    IF fs[pickle_file].kind = "absent"
    THEN Loaded(NoModel, "FileNotFoundError", "pickle")
    ELSE IF fs[pickle_file].kind # "pickle"
    THEN Loaded(NoModel, "UnpicklingError", "pickle")
    ELSE Loaded([arch |-> fs[pickle_file].arch,
                 weights |-> fs[pickle_file].weights], None, "pickle")

\* (mutant: the JSON loader is taken for two or more names)
model_from_list_atleast2(fs, fnames) ==
    IF Len(fnames) >= 2
    THEN model_from_json(fs, fnames[1], fnames[2])
    ELSE IF Len(fnames) = 0
    THEN Loaded(NoModel, "IndexError", "pickle")
    ELSE model_from_pickle(fs, fnames[1])

model_from_list(fs, fnames) ==
    IF Len(fnames) = 2
    THEN model_from_json(fs, fnames[1], fnames[2])
    ELSE IF Len(fnames) = 0
    THEN Loaded(NoModel, "IndexError", "pickle")      \* fnames[0]
    ELSE model_from_pickle(fs, fnames[1])

Write(op, model, p1, p2) == [op |-> op, model |-> model, p1 |-> p1, p2 |-> p2]

NotLoaded == Loaded(NoModel, None, "not called")

ioInit ==
    /\ io_pc = "run"
    /\ io_fs = [path \in Paths |-> Absent]
    /\ io_nwrites = 0
    /\ io_last = Write("none", NoModel, None, None)
    /\ io_fnames = <<>>
    /\ io_ret = NotLoaded

ioIdle ==
    /\ io_pc = "idle"
    /\ io_fs = <<>>
    /\ io_nwrites = 0
    /\ io_last = Write("none", NoModel, None, None)
    /\ io_fnames = <<>>
    /\ io_ret = NotLoaded

ModelToPickle ==
    /\ io_pc = "run"
    /\ io_nwrites < MaxWrites
    /\ \E model \in Models, path \in Paths :
         /\ io_fs' = model_to_pickle(io_fs, model, path)
         /\ io_last' = Write("pickle", model, path, None)
    /\ io_nwrites' = io_nwrites + 1
    /\ io_fnames' = <<>>
    /\ io_ret' = NotLoaded
    /\ UNCHANGED io_pc

ModelToJson ==
    /\ io_pc = "run"
    /\ io_nwrites < MaxWrites
    /\ \E model \in Models, json_file \in Paths,
          weights_file \in Paths \cup {None} :
         /\ io_fs' = model_to_json(io_fs, model, json_file, weights_file)
         /\ io_last' = Write("json", model, json_file, weights_file)
    /\ io_nwrites' = io_nwrites + 1
    /\ io_fnames' = <<>>
    /\ io_ret' = NotLoaded
    /\ UNCHANGED io_pc

ModelFromList ==
    /\ io_pc = "run"
    /\ \E fnames \in SeqsUpTo(Paths, 3) :
         /\ io_fnames' = fnames
         /\ io_ret' = model_from_list(io_fs, fnames)
    /\ UNCHANGED <<io_pc, io_fs, io_nwrites, io_last>>

(***************************************************************************)
(* train.py: App.callbacks, App.main.                                      *)
(*                                                                         *)
(* main is a sequence of steps; mn_pc is the next one.  The weights of the *)
(* model are a version number that every training step (a trial batch of  *)
(* adjust_batch_size, an epoch of fit) increases; a weights file holds the *)
(* version it was saved from.  The learning rate of the optimizer is       *)
(* <<value, drops>>: the value last set, in units of 1e-6, and the number  *)
(* of times lr_schedule multiplied it by lr_decay since.  mn_log lists     *)
(* the calls of main that the claims are about, in order.  Weight copying  *)
(* (--cpg_model, --seq_model) and --not_trainable act on the weights       *)
(* before training, which are version 0 here.                              *)
(***************************************************************************)
NoLr == <<NoneNum, 0>>

\* the parameter file: Params.from_yaml(opts.params)
ParamsFile ==
    [batch_size |-> 128, lr |-> 100,
     net |-> [seq |-> <<[drop_in |-> 0, nb_filter |-> <<4>>, filter_len |-> <<3>>,
                         pool_len |-> <<2>>, activation |-> "relu",
                         drop_out |-> 2, nb_hidden |-> 2, batch_norm |-> FALSE]>>,
              cpg |-> <<>>,
              joint |-> <<>>,
              target |-> [nb_hidden |-> 2, batch_norm |-> FALSE,
                          drop_out |-> 0, activation |-> "relu"]]]

\* the learning rate of the optimizer of a model loaded with its optimizer
LoadedLr == <<200, 0>>

Options ==
    [params : BOOLEAN,              \* --params given
     model : BOOLEAN,               \* --model given
     compile : BOOLEAN,             \* --compile
     lr : {NoneNum, 300},           \* --lr
     batch_size : {NoneNum, 0, 64}, \* --batch_size
     batch_size_auto : BOOLEAN,     \* --batch_size_auto
     out_pickle : BOOLEAN,          \* --out_pickle is not None
     max_time : BOOLEAN,            \* --max_time is not None
     eval : {{}, {"val"}, {"train", "val"}},
     nb_epoch : 0..MaxEpochs]

\* what main finds outside: the number of training samples, the batch
\* sizes that do not fit the GPU, whether a loaded model has a loss
Environments ==
    [nb_sample : {10, 600},
     fail : {{}, {512}, BatchSizes},
     has_loss : BOOLEAN]

Model(exists, has_loss, w, lr) ==
    [exists |-> exists, has_loss |-> has_loss, w |-> w, lr |-> lr]

Raise(exc) == [code |-> NoneNum, exc |-> exc]

Return(code) == [code |-> code, exc |-> None]

Running == Return(NoneNum)

mnInit ==
    /\ mn_pc = "build"
    /\ mn_opts \in Options
    /\ mn_env \in Environments
    /\ mn_model = Model(FALSE, FALSE, 0, NoLr)
    /\ mn_files = [json |-> FALSE, weights |-> NoneNum, weights_last |-> NoneNum,
                   pickle |-> NoneNum]
    /\ mn_cbacks = <<>>
    /\ mn_batch_size = NoneNum
    /\ mn_fit = [called |-> FALSE, lr |-> NoLr, batch_size |-> NoneNum,
                 cbacks |-> <<>>]
    /\ mn_epoch = 0
    /\ mn_z = [train |-> NoneNum, val |-> NoneNum]
    /\ mn_log = <<>>
    /\ mn_ret = Running

mnIdle ==
    /\ mn_pc = "idle"
    /\ mn_opts = None
    /\ mn_env = None
    /\ mn_model = Model(FALSE, FALSE, 0, NoLr)
    /\ mn_files = [json |-> FALSE, weights |-> NoneNum, weights_last |-> NoneNum,
                   pickle |-> NoneNum]
    /\ mn_cbacks = <<>>
    /\ mn_batch_size = NoneNum
    /\ mn_fit = [called |-> FALSE, lr |-> NoLr, batch_size |-> NoneNum,
                 cbacks |-> <<>>]
    /\ mn_epoch = 0
    /\ mn_z = [train |-> NoneNum, val |-> NoneNum]
    /\ mn_log = <<>>
    /\ mn_ret = Running

\* model_params of main: <<>> is None
model_params(opts) == IF opts.params THEN <<ParamsFile>> ELSE <<>>

\* lines 359-375: "# Build model"
MainBuild ==
    /\ mn_pc = "build"
    /\ IF ~mn_opts.model
       THEN \* "assert 'Parameter file needed!'" is the assertion of a
            \* non-empty string: it never fails
            LET mp == model_params(mn_opts)
                r == build_model(IF mp = <<>> THEN <<>> ELSE <<mp[1].net>>,
                                 [s_x |-> TRUE, c_x |-> FALSE], <<<<"c", "0">>>>)
            IN  /\ mn_log' = Append(mn_log,
                       IF mp = <<>> THEN "build_model(None)" ELSE "build_model")
                /\ IF r.exc # None
                   THEN /\ mn_ret' = Raise(r.exc)
                        /\ mn_pc' = "done"
                        /\ UNCHANGED mn_model
                   ELSE /\ mn_model' = Model(TRUE, FALSE, 0, NoLr)
                        /\ mn_pc' = "compile"
                        /\ UNCHANGED mn_ret
       ELSE \* net.model_from_list(opts.model, compile=False)
            /\ mn_log' = Append(mn_log, "model_from_list")
            /\ mn_model' = Model(TRUE, mn_env.has_loss, 0,
                                 IF mn_env.has_loss THEN LoadedLr ELSE NoLr)
            /\ mn_pc' = "compile"
            /\ UNCHANGED mn_ret
    /\ UNCHANGED <<mn_opts, mn_env, mn_files, mn_cbacks, mn_batch_size, mn_fit,
                   mn_epoch, mn_z>>

\* lines 400-413: "# Compile model" and --lr
MainCompile ==
    /\ mn_pc = "compile"
    /\ LET mp == model_params(mn_opts)
           needed == mn_opts.compile \/ ~mn_model.has_loss
       IN  IF needed /\ mp = <<>>
           THEN \* net.optimizer_from_json reads the file into a str and
                \* optimizer_from_config calls config.get on it
                /\ mn_ret' = Raise("AttributeError")
                /\ mn_pc' = "done"
                /\ UNCHANGED mn_model
           ELSE LET lr0 == IF needed THEN <<mp[1].lr, 0>> ELSE mn_model.lr
                    lr1 == IF mn_opts.lr # NoneNum THEN <<mn_opts.lr, 0>> ELSE lr0
                IN  /\ mn_model' = [mn_model EXCEPT !.has_loss = TRUE, !.lr = lr1]
                    /\ mn_pc' = "save"
                    /\ UNCHANGED mn_ret
    /\ UNCHANGED <<mn_opts, mn_env, mn_files, mn_cbacks, mn_batch_size, mn_fit,
                   mn_epoch, mn_z, mn_log>>

\* lines 415-422: "Save model"
MainSave ==
    /\ mn_pc = "save"
    /\ mn_files' = [mn_files EXCEPT !.json = TRUE, !.weights = mn_model.w]
    /\ mn_log' = mn_log \o <<"model.json", "model_weights.h5">>
    /\ mn_pc' = "callbacks"
    /\ UNCHANGED <<mn_opts, mn_env, mn_model, mn_cbacks, mn_batch_size, mn_fit,
                   mn_epoch, mn_z, mn_ret>>

\* App.callbacks
callbacks(max_time) ==
    <<"ProgressLogger", "EarlyStopping">>
    \o (IF max_time THEN <<"Timer">> ELSE <<>>)
    \o <<"ModelCheckpoint(last)", "ModelCheckpoint(best)",
         "LearningRateScheduler", "PerformanceLogger">>

\* lines 424-452: callbacks, training and validation data
MainData ==
    /\ mn_pc = "callbacks"
    /\ mn_cbacks' = callbacks(mn_opts.max_time) \o <<"DataJumper">>
    /\ mn_pc' = "batch_size"
    /\ UNCHANGED <<mn_opts, mn_env, mn_model, mn_files, mn_batch_size, mn_fit,
                   mn_epoch, mn_z, mn_log, mn_ret>>

\* lines 454-466: "# Define batch size"
MainBatchSize ==
    /\ mn_pc = "batch_size"
    /\ IF Truthy(mn_opts.batch_size)
       THEN /\ mn_batch_size' = mn_opts.batch_size
            /\ mn_pc' = "fit"
            /\ UNCHANGED <<mn_model, mn_ret, mn_log>>
       ELSE IF mn_opts.batch_size_auto \/ model_params(mn_opts) = <<>>
       THEN LET r == adjust_batch_size(mn_env.nb_sample, mn_env.fail)
                \* the trial that did not raise trained the model on a batch
                w == IF r.ret[1] # NoneNum THEN mn_model.w + 1 ELSE mn_model.w
            IN  /\ mn_log' = Append(mn_log, "adjust_batch_size")
                /\ mn_batch_size' = r.ret[1]
                /\ IF r.ret[1] = NoneNum
                   THEN /\ mn_ret' = Return(1)
                        /\ mn_pc' = "done"
                        /\ mn_model' = [mn_model EXCEPT !.w = w]
                   ELSE /\ mn_model' = [mn_model EXCEPT !.w = w,
                                                        !.lr = <<r.ret[2], 0>>]
                        /\ mn_pc' = "fit"
                        /\ UNCHANGED mn_ret
       ELSE /\ mn_batch_size' = model_params(mn_opts)[1].batch_size
            /\ mn_pc' = "fit"
            /\ UNCHANGED <<mn_model, mn_ret, mn_log>>
    /\ UNCHANGED <<mn_opts, mn_env, mn_files, mn_cbacks, mn_fit, mn_epoch, mn_z>>

\* lines 486-496: model.fit is called
MainFit ==
    /\ mn_pc = "fit"
    /\ mn_fit' = [called |-> TRUE, lr |-> mn_model.lr,
                  batch_size |-> mn_batch_size, cbacks |-> mn_cbacks]
    /\ mn_log' = Append(mn_log, "fit")
    /\ mn_pc' = "epoch"
    /\ UNCHANGED <<mn_opts, mn_env, mn_model, mn_files, mn_cbacks, mn_batch_size,
                   mn_epoch, mn_z, mn_ret>>

\* one epoch of model.fit and the callbacks at its end: the weights are
\* trained; ModelCheckpoint(last) saves them; ModelCheckpoint(best) saves
\* them when the validation loss improved; lr_schedule may drop the
\* learning rate
MainEpoch ==
    /\ mn_pc = "epoch"
    /\ mn_epoch < mn_opts.nb_epoch
    /\ \E improved \in BOOLEAN, drop \in BOOLEAN :
        LET w == mn_model.w + 1
            lr == IF drop THEN <<mn_model.lr[1], mn_model.lr[2] + 1>>
                  ELSE mn_model.lr
        IN  /\ mn_model' = [mn_model EXCEPT !.w = w, !.lr = lr]
            /\ mn_files' = [mn_files EXCEPT
                               !.weights_last = w,
                               !.weights = IF improved THEN w ELSE @]
    /\ mn_epoch' = mn_epoch + 1
    /\ UNCHANGED <<mn_pc, mn_opts, mn_env, mn_cbacks, mn_batch_size, mn_fit,
                   mn_z, mn_log, mn_ret>>

\* model.fit returns: after nb_epoch epochs, or earlier when EarlyStopping
\* (or Timer) stopped the training at the end of an epoch
MainFitEnd ==
    /\ mn_pc = "epoch"
    /\ mn_epoch = mn_opts.nb_epoch \/ mn_epoch >= 1
    /\ mn_pc' = "load"
    /\ UNCHANGED <<mn_opts, mn_env, mn_model, mn_files, mn_cbacks, mn_batch_size,
                   mn_fit, mn_epoch, mn_z, mn_log, mn_ret>>

\* lines 498-501 without the load: the model keeps the weights of fit
load_best_skip(model, files) == model

\* lines 498-501: "# Use best weights on validation set"
load_best(model, files) ==
    IF files.weights # NoneNum             \* pt.isfile(h)
    THEN [model EXCEPT !.w = files.weights]
    ELSE model

MainLoad ==
    /\ mn_pc = "load"
    /\ mn_model' = load_best(mn_model, mn_files)
    /\ mn_log' = IF mn_files.weights # NoneNum
                 THEN Append(mn_log, "load_weights") ELSE mn_log
    /\ mn_pc' = "pickle"
    /\ UNCHANGED <<mn_opts, mn_env, mn_files, mn_cbacks, mn_batch_size, mn_fit,
                   mn_epoch, mn_z, mn_ret>>

\* lines 503-508: "Pickle model"
MainPickle ==
    /\ mn_pc = "pickle"
    /\ IF mn_opts.out_pickle
       THEN /\ mn_files' = [mn_files EXCEPT !.pickle = mn_model.w]
            /\ mn_log' = Append(mn_log, "model_to_pickle")
       ELSE UNCHANGED <<mn_files, mn_log>>
    /\ mn_pc' = "eval_train"
    /\ UNCHANGED <<mn_opts, mn_env, mn_model, mn_cbacks, mn_batch_size, mn_fit,
                   mn_epoch, mn_z, mn_ret>>

\* lines 524-529: "Evaluate training set performance"
MainEvalTrain ==
    /\ mn_pc = "eval_train"
    /\ IF "train" \in mn_opts.eval
       THEN /\ mn_z' = [mn_z EXCEPT !.train = mn_model.w]
            /\ mn_log' = Append(mn_log, "predict(train)")
       ELSE UNCHANGED <<mn_z, mn_log>>
    /\ mn_pc' = "eval_val"
    /\ UNCHANGED <<mn_opts, mn_env, mn_model, mn_files, mn_cbacks, mn_batch_size,
                   mn_fit, mn_epoch, mn_ret>>

\* lines 531-543: "Evaluate validation set performance", return 0
MainEvalVal ==
    /\ mn_pc = "eval_val"
    /\ IF "val" \in mn_opts.eval
       THEN /\ mn_z' = [mn_z EXCEPT !.val = mn_model.w]
            /\ mn_log' = Append(mn_log, "predict(val)")
       ELSE UNCHANGED <<mn_z, mn_log>>
    /\ mn_ret' = Return(0)
    /\ mn_pc' = "done"
    /\ UNCHANGED <<mn_opts, mn_env, mn_model, mn_files, mn_cbacks, mn_batch_size,
                   mn_fit, mn_epoch>>

(***************************************************************************)
(* net.py: predict_loop, write_loop.                                       *)
(*                                                                         *)
(* The loops run one batch per step.  An array is the sequence of its      *)
(* rows, row r of numpy at position r + 1.  The prediction function maps   *)
(* the rows of a batch to one row per sample and output; a row is          *)
(* <<sample, output>>, and a row of np.zeros is ZeroRow.  pl_events lists  *)
(* the calls the loop makes as <<kind, n, batch_index, a, b>>: callback n  *)
(* with (batch_index, a), the function f on the samples a..b-1, write_fun  *)
(* with (batch_outs, a, b).                                                *)
(***************************************************************************)
Min(a, b) == IF a <= b THEN a ELSE b

\* keras.models.make_batches(size, batch_size), batch_size >= 1:
\* ceil(size / batch_size) pairs (i * batch_size, min(size, (i + 1) * batch_size))
make_batches(size, batch_size) ==
    LET nb_batch == (size + batch_size - 1) \div batch_size
    IN  [i \in 1..nb_batch |->
            <<(i - 1) * batch_size, Min(size, i * batch_size)>>]

\* list(index_array[batch_start:batch_end])
batch_ids(batch_start, batch_end) ==
    [k \in 1..(batch_end - batch_start) |-> batch_start + k - 1]

ZeroRow == <<NoneNum, NoneNum>>

\* np.zeros((nb_sample,) + batch_out.shape[1:])
zeros(nb_sample) == [r \in 1..nb_sample |-> ZeroRow]

\* f(*ins_batch): one row per sample; a list of one array per output, or
\* the array itself when f returns no list
f(ids, nb_out, bare) ==
    IF bare THEN [k \in 1..Len(ids) |-> <<ids[k], 1>>]
    ELSE [o \in 1..nb_out |-> [k \in 1..Len(ids) |-> <<ids[k], o>>]]

\* "if type(batch_outs) != list: batch_outs = [batch_outs]"
as_list(batch_outs, bare) == IF bare THEN <<batch_outs>> ELSE batch_outs

\* outs[i][batch_start:batch_end] = batch_out
set_rows(arr, batch_start, batch_end, batch_out) ==
    [r \in 1..Len(arr) |->
        IF batch_start < r /\ r <= batch_end
        THEN batch_out[r - batch_start] ELSE arr[r]]

\* "for callback in callbacks: callback(batch_index, len(batches))"
call_callbacks(nb_cb, batch_index, nb_batch) ==
    [n \in 1..nb_cb |-> <<"callback", n, batch_index, nb_batch, 0>>]

\* the body of the loop of predict_loop that allocates outs at every batch
predict_batch_realloc(outs, nwritten, nb_sample, nb_out, bare, nb_cb, batch_index, batches) ==
    LET batch_start == batches[batch_index + 1][1]
        batch_end == batches[batch_index + 1][2]
        ids == batch_ids(batch_start, batch_end)
        batch_outs == as_list(f(ids, nb_out, bare), bare)
        outs0 == [i \in 1..Len(batch_outs) |-> zeros(nb_sample)]
    IN  [events |-> call_callbacks(nb_cb, batch_index, Len(batches))
                    \o <<<<"f", 0, batch_index, batch_start, batch_end>>>>,
         outs |-> [i \in 1..Len(batch_outs) |->
                      set_rows(outs0[i], batch_start, batch_end, batch_outs[i])],
         nwritten |-> [i \in 1..Len(batch_outs) |->
                          [r \in 1..nb_sample |->
                              IF batch_start < r /\ r <= batch_end THEN 1 ELSE 0]]]

\* the body of the loop of predict_loop, for the batch batch_index
predict_batch(outs, nwritten, nb_sample, nb_out, bare, nb_cb, batch_index, batches) ==
    LET batch_start == batches[batch_index + 1][1]
        batch_end == batches[batch_index + 1][2]
        ids == batch_ids(batch_start, batch_end)
        batch_outs == as_list(f(ids, nb_out, bare), bare)
        outs0 == IF batch_index = 0
                 THEN [i \in 1..Len(batch_outs) |-> zeros(nb_sample)]
                 ELSE outs
        nw0 == IF batch_index = 0
               THEN [i \in 1..Len(batch_outs) |-> [r \in 1..nb_sample |-> 0]]
               ELSE nwritten
    IN  [events |-> call_callbacks(nb_cb, batch_index, Len(batches))
                    \o <<<<"f", 0, batch_index, batch_start, batch_end>>>>,
         outs |-> [i \in 1..Len(batch_outs) |->
                      set_rows(outs0[i], batch_start, batch_end, batch_outs[i])],
         nwritten |-> [i \in 1..Len(batch_outs) |->
                          [r \in 1..nb_sample |->
                              IF batch_start < r /\ r <= batch_end
                              THEN nw0[i][r] + 1 ELSE nw0[i][r]]]]

\* the body of the loop of write_loop, for the batch batch_index
write_batch(nb_cb, batch_index, batches) ==
    LET batch_start == batches[batch_index + 1][1]
        batch_end == batches[batch_index + 1][2]
    IN  call_callbacks(nb_cb, batch_index, Len(batches))
        \o <<<<"f", 0, batch_index, batch_start, batch_end>>,
             <<"write_fun", 0, batch_index, batch_start, batch_end>>>>

\* dict(zip(model.output_order, outs)): the arrays, keyed by the first
\* Len(outs) names of output_order
zip_outputs(nb_out, outs) == SubSeq(outs, 1, Min(nb_out, Len(outs)))

plInit ==
    /\ pl_pc = "start"
    /\ pl_fun \in {"predict_loop", "write_loop"}
    /\ pl_nb_sample \in 0..MaxPredSamples
    /\ pl_batch_size \in 1..MaxBatchSize
    /\ pl_nb_out \in 1..MaxOutputs
    /\ pl_bare \in BOOLEAN          \* f returns one array, not a list
    /\ pl_bare => pl_nb_out = 1
    /\ pl_nb_cb \in 0..MaxCallbacks
    /\ pl_batches = <<>>
    /\ pl_index = 0
    /\ pl_outs = <<>>
    /\ pl_nwritten = <<>>
    /\ pl_events = <<>>
    /\ pl_ret = <<>>

plIdle ==
    /\ pl_pc = "idle"
    /\ pl_fun = None
    /\ pl_nb_sample = 0
    /\ pl_batch_size = 1
    /\ pl_nb_out = 1
    /\ pl_bare = FALSE
    /\ pl_nb_cb = 0
    /\ pl_batches = <<>>
    /\ pl_index = 0
    /\ pl_outs = <<>>
    /\ pl_nwritten = <<>>
    /\ pl_events = <<>>
    /\ pl_ret = <<>>

\* the lines before the loop: nb_sample, batches, nb_batch
LoopStart ==
    /\ pl_pc = "start"
    /\ pl_batches' = make_batches(pl_nb_sample, pl_batch_size)
    /\ pl_pc' = "loop"
    /\ UNCHANGED <<pl_fun, pl_nb_sample, pl_batch_size, pl_nb_out, pl_bare,
                   pl_nb_cb, pl_index, pl_outs, pl_nwritten, pl_events, pl_ret>>

PredictBatch ==
    /\ pl_pc = "loop"
    /\ pl_fun = "predict_loop"
    /\ pl_index < Len(pl_batches)
    /\ LET r == predict_batch(pl_outs, pl_nwritten, pl_nb_sample, pl_nb_out,
                              pl_bare, pl_nb_cb, pl_index, pl_batches)
       IN  /\ pl_outs' = r.outs
           /\ pl_nwritten' = r.nwritten
           /\ pl_events' = pl_events \o r.events
    /\ pl_index' = pl_index + 1
    /\ UNCHANGED <<pl_pc, pl_fun, pl_nb_sample, pl_batch_size, pl_nb_out,
                   pl_bare, pl_nb_cb, pl_batches, pl_ret>>

PredictReturn ==
    /\ pl_pc = "loop"
    /\ pl_fun = "predict_loop"
    /\ pl_index = Len(pl_batches)
    /\ pl_ret' = zip_outputs(pl_nb_out, pl_outs)
    /\ pl_pc' = "returned"
    /\ UNCHANGED <<pl_fun, pl_nb_sample, pl_batch_size, pl_nb_out, pl_bare,
                   pl_nb_cb, pl_batches, pl_index, pl_outs, pl_nwritten,
                   pl_events>>

WriteBatch ==
    /\ pl_pc = "loop"
    /\ pl_fun = "write_loop"
    /\ pl_index < Len(pl_batches)
    /\ pl_events' = pl_events \o write_batch(pl_nb_cb, pl_index, pl_batches)
    /\ pl_index' = pl_index + 1
    /\ UNCHANGED <<pl_pc, pl_fun, pl_nb_sample, pl_batch_size, pl_nb_out,
                   pl_bare, pl_nb_cb, pl_batches, pl_outs, pl_nwritten, pl_ret>>

WriteReturn ==
    /\ pl_pc = "loop"
    /\ pl_fun = "write_loop"
    /\ pl_index = Len(pl_batches)
    /\ pl_pc' = "returned"
    /\ UNCHANGED <<pl_fun, pl_nb_sample, pl_batch_size, pl_nb_out, pl_bare,
                   pl_nb_cb, pl_batches, pl_index, pl_outs, pl_nwritten,
                   pl_events, pl_ret>>

(***************************************************************************)
(* Specifications.                                                         *)
(***************************************************************************)
InitWeights == rdInit /\ abIdle /\ cwIdle /\ slIdle /\ bdIdle /\ evIdle /\ ioIdle /\ mnIdle /\ plIdle
NextWeights == read_data /\ UNCHANGED <<abVars, cwVars, slVars, bdVars, evVars, ioVars, mnVars, plVars>>
SpecWeights == InitWeights /\ [][NextWeights]_vars

InitBatch == abInit /\ rdIdle /\ cwIdle /\ slIdle /\ bdIdle /\ evIdle /\ ioIdle /\ mnIdle /\ plIdle
NextBatch == AdjustBatchSize /\ UNCHANGED <<rdVars, cwVars, slVars, bdVars, evVars, ioVars, mnVars, plVars>>
SpecBatch == InitBatch /\ [][NextBatch]_vars

InitCopy == cwInit /\ rdIdle /\ abIdle /\ slIdle /\ bdIdle /\ evIdle /\ ioIdle /\ mnIdle /\ plIdle
NextCopy == CopyWeights /\ UNCHANGED <<rdVars, abVars, slVars, bdVars, evVars, ioVars, mnVars, plVars>>
SpecCopy == InitCopy /\ [][NextCopy]_vars

InitLayers == slInit /\ rdIdle /\ abIdle /\ cwIdle /\ bdIdle /\ evIdle /\ ioIdle /\ mnIdle /\ plIdle
NextLayers ==
    (SeqLayers \/ CpgLayers) /\ UNCHANGED <<rdVars, abVars, cwVars, bdVars, evVars, ioVars, mnVars, plVars>>
SpecLayers == InitLayers /\ [][NextLayers]_vars

InitBuild == bdInit /\ rdIdle /\ abIdle /\ cwIdle /\ slIdle /\ evIdle /\ ioIdle /\ mnIdle /\ plIdle
NextBuild ==
    BuildModel /\ UNCHANGED <<rdVars, abVars, cwVars, slVars, evVars, ioVars, mnVars, plVars>>
SpecBuild == InitBuild /\ [][NextBuild]_vars

InitEval == evInit /\ rdIdle /\ abIdle /\ cwIdle /\ slIdle /\ bdIdle /\ ioIdle /\ mnIdle /\ plIdle
NextEval ==
    EvalIO /\ UNCHANGED <<rdVars, abVars, cwVars, slVars, bdVars, ioVars, mnVars, plVars>>
SpecEval == InitEval /\ [][NextEval]_vars

InitIO == ioInit /\ rdIdle /\ abIdle /\ cwIdle /\ slIdle /\ bdIdle /\ evIdle /\ mnIdle /\ plIdle
NextIO ==
    (ModelToPickle \/ ModelToJson \/ ModelFromList)
    /\ UNCHANGED <<rdVars, abVars, cwVars, slVars, bdVars, evVars, mnVars, plVars>>
SpecIO == InitIO /\ [][NextIO]_vars

InitMain == mnInit /\ rdIdle /\ abIdle /\ cwIdle /\ slIdle /\ bdIdle /\ evIdle /\ ioIdle /\ plIdle
NextMain ==
    (MainBuild \/ MainCompile \/ MainSave \/ MainData \/ MainBatchSize
        \/ MainFit \/ MainEpoch \/ MainFitEnd \/ MainLoad \/ MainPickle
        \/ MainEvalTrain \/ MainEvalVal)
    /\ UNCHANGED <<rdVars, abVars, cwVars, slVars, bdVars, evVars, ioVars, plVars>>
SpecMain == InitMain /\ [][NextMain]_vars

InitLoop == plInit /\ rdIdle /\ abIdle /\ cwIdle /\ slIdle /\ bdIdle /\ evIdle /\ ioIdle /\ mnIdle
NextLoop ==
    (LoopStart \/ PredictBatch \/ PredictReturn \/ WriteBatch \/ WriteReturn)
    /\ UNCHANGED <<rdVars, abVars, cwVars, slVars, bdVars, evVars, ioVars, mnVars>>
SpecLoop == InitLoop /\ [][NextLoop]_vars

(***************************************************************************)
(* Claims.                                                                 *)
(***************************************************************************)

\* C1: once read_data has built the weights (weight_classes=False), every
\* output's weight array has the shape of its label array, is 0 exactly
\* where the label equals MASK and 1 everywhere else, and check_weights
\* raised no AssertionError.
C1_WeightsZeroExactlyAtMask ==
    rd_pc \notin {"idle", "start"} =>
        /\ rd_pc = "returned"
        /\ \A k \in Range(OutputOrder) :
            LET y == rd_data[k].arr
                w == rd_weights[k].arr
            IN  /\ Len(w) = Len(y)
                /\ \A i \in 1..Len(y) :
                      /\ (w[i] = ZERO) <=> (y[i] = MASK)
                      /\ (w[i] = ONE) <=> (y[i] # MASK)

\* C1 witness: read_data returned for a data set in which one output has a
\* masked and an unmasked label.
C1_Witness ==
    /\ rd_pc = "returned"
    /\ \E k \in Range(OutputOrder) :
         LET y == rd_data[k].arr
         IN  /\ \E i \in 1..Len(y) : y[i] = MASK /\ rd_weights[k].arr[i] = ZERO
             /\ \E i \in 1..Len(y) : y[i] = 1 /\ rd_weights[k].arr[i] = ONE

C2_Sizes == {512, 256, 128, 64, 32, 16}

C2_Lr(b) == CASE b = 512 -> 125 [] b = 256 -> 250 [] b = 128 -> 500 [] OTHER -> 1000

C2_Max(S) == CHOOSE m \in S : \A x \in S : x <= m

\* C2: adjust_batch_size tries the sizes 512..16 in decreasing order, skips
\* the sizes above the number of samples, returns the largest size <= the
\* number of samples whose trial did not raise with the learning rate of
\* the table, returns (None, None) exactly when no such size exists, and
\* no exception of a trial reaches the caller.
C2_AdjustBatchSize ==
    ab_pc \notin {"idle", "start"} =>
        LET eligible == {b \in C2_Sizes : b <= ab_nb_sample}
            ok == eligible \ ab_fail
        IN  /\ ab_pc = "returned"
            /\ ~ab_exc
            /\ \A i \in 1..Len(ab_tried) - 1 : ab_tried[i] > ab_tried[i + 1]
            /\ (ab_ret = <<NoneNum, NoneNum>>) <=> (ok = {})
            /\ ok = {} => Range(ab_tried) = eligible
            /\ ok # {} =>
                  /\ ab_ret = <<C2_Max(ok), C2_Lr(C2_Max(ok))>>
                  /\ Range(ab_tried) = {b \in eligible : b >= C2_Max(ok)}

\* C2 witness: with fewer than 512 samples the two largest eligible sizes
\* failed and the third was returned.
C2_Witness ==
    /\ ab_pc = "returned"
    /\ ab_nb_sample < 512
    /\ ab_tried = <<256, 128, 64>>
    /\ ab_ret = <<64, 1000>>

\* the names of src that are also in dst and that some regex matches
C3_Selected ==
    {k \in Range(cw_src0.order) \cap DOMAIN cw_dst0 :
        \E n \in 1..Len(cw_regexs) : re_search(cw_regexs[n], k)}

\* C3: when copy_weights returns, the dst nodes whose name is in src and in
\* dst and matches a regex carry the weights of the src node of that name,
\* the returned list holds exactly those names, each once, every other dst
\* node keeps its weights and src is as before.
C3_CopyWeights ==
    cw_pc = "returned" =>
        /\ Range(cw_copied) = C3_Selected
        /\ Len(cw_copied) = Cardinality(C3_Selected)
        /\ DOMAIN cw_dst = DOMAIN cw_dst0
        /\ \A k \in DOMAIN cw_dst :
             cw_dst[k] = IF k \in C3_Selected THEN cw_src0.w[k] ELSE cw_dst0[k]
        /\ cw_src = cw_src0

\* C3 witness: a call returned that copied one node, passed over a src node
\* that a regex matches but dst lacks, and left a dst node untouched that
\* src has but no regex matches.
C3_Witness ==
    /\ cw_pc = "returned"
    /\ Len(cw_copied) = 1
    /\ \E k \in Range(cw_src.order) \ DOMAIN cw_dst :
         \E n \in 1..Len(cw_regexs) : re_search(cw_regexs[n], k)
    /\ \E k \in (Range(cw_src.order) \cap DOMAIN cw_dst) \ C3_Selected :
         cw_dst[k] = Weights("dst", k, 1)

\* the names of a layer list
C6_Names(layers) == [i \in 1..Len(layers) |-> layers[i][1]]

C6_Digit(l) ==
    CASE l = 1 -> "1" [] l = 2 -> "2" [] l = 3 -> "3" [] l = 4 -> "4" [] l = 5 -> "5"

\* the node names the claim lists for a parameter set p
C6_Expected(p) ==
    LET n == Len(p.nb_filter)
        set(v) == v # NoneNum /\ v # 0
    IN  (IF set(p.drop_in) THEN <<<<"x", "d">>>> ELSE <<>>)
        \o [i \in 1..2 * n |->
               IF i % 2 = 1 THEN <<"c", C6_Digit((i + 1) \div 2)>>
               ELSE <<"p", C6_Digit(i \div 2)>>]
        \o <<<<"f", "1">>>>
        \o (IF set(p.drop_out) THEN <<<<"f", "1", "d">>>> ELSE <<>>)
        \o (IF set(p.nb_hidden) THEN <<<<"h", "1">>>> ELSE <<>>)
        \o (IF set(p.nb_hidden) /\ p.batch_norm THEN <<<<"h", "1", "b">>>> ELSE <<>>)
        \o (IF set(p.nb_hidden) THEN <<<<"h", "1", "a">>>> ELSE <<>>)
        \o (IF set(p.nb_hidden) /\ set(p.drop_out) THEN <<<<"h", "1", "d">>>> ELSE <<>>)

\* C6: a list that seq_layers returns has the node names xd (drop_in set),
\* c1, p1, ..., cn, pn, f1, f1d (drop_out set) and, with nb_hidden set, h1,
\* h1b (batch_norm), h1a, h1d (drop_out set), in this order; cpg_layers
\* returns the same names for the same parameters, with 2-D in the place of
\* 1-D convolution and pooling layers.  An option is set when Python takes
\* it as true: it is neither None nor 0.
C6_LayerNames ==
    /\ sl_seq.exc = None =>
          C6_Names(sl_seq.layers) = C6_Expected(sl_params)
    /\ sl_cpg.exc = None =>
          C6_Names(sl_cpg.layers) = C6_Expected(sl_params)
    /\ (sl_seq # NotCalled /\ sl_cpg # NotCalled) =>
          /\ sl_seq.exc = sl_cpg.exc
          /\ \A i \in 1..Len(sl_seq.layers) :
               LET a == sl_seq.layers[i][2].type
                   b == sl_cpg.layers[i][2].type
               IN  CASE a = "Convolution1D" -> b = "Convolution2D"
                     [] a = "MaxPooling1D" -> b = "MaxPooling2D"
                     [] OTHER -> b = a

\* C6 witness: both functions returned for two layers with every option set.
C6_Witness ==
    /\ sl_seq.exc = None /\ sl_cpg.exc = None
    /\ Len(sl_params.nb_filter) = 2
    /\ Truthy(sl_params.drop_in) /\ Truthy(sl_params.drop_out)
    /\ Truthy(sl_params.nb_hidden) /\ sl_params.batch_norm
    /\ Len(sl_cpg.layers) = 11

\* the indices of the nodes of the graph whose name starts with prefix + '_'
C4_Chain(prefix) ==
    {i \in 1..Len(bd_model.nodes) :
        LET name == bd_model.nodes[i].name
        IN  /\ Len(name) > Len(prefix)
            /\ SubSeq(name, 1, Len(prefix) + 1) = prefix \o <<"_">>}

C4_Last(S) == CHOOSE m \in S : \A x \in S : x <= m

C4_First(S) == CHOOSE m \in S : \A x \in S : m <= x

\* C4: a graph that build returns has one output per target, named
\* '<target>_y', in the order of the targets, and the output of a target is
\* fed by the node '<target>_o', a Dense(1) sigmoid layer that is the last
\* node of that target's head, with and without the hidden layer.
C4_Outputs ==
    bd_pc = "returned" =>
        /\ Len(bd_model.outputs) = Len(bd_targets)
        /\ \A i \in 1..Len(bd_targets) :
             LET t == bd_targets[i]
                 head == C4_Chain(t)
             IN  /\ bd_model.outputs[i].name = t \o <<"_", "y">>
                 /\ bd_model.outputs[i].input = t \o <<"_", "o">>
                 /\ head # {}
                 /\ bd_model.nodes[C4_Last(head)].name = t \o <<"_", "o">>
                 /\ bd_model.nodes[C4_Last(head)].layer =
                        [type |-> "Dense", arg |-> 1, act |-> "sigmoid"]
                 /\ Cardinality({n \in head :
                        bd_model.nodes[n].name = t \o <<"_", "o">>}) = 1

\* C4 witness: build returned a graph for two targets whose heads have the
\* hidden layer.
C4_Witness ==
    /\ bd_pc = "returned"
    /\ Len(bd_targets) = 2
    /\ bd_params[1].target.nb_hidden = 2
    /\ Len(bd_model.outputs) = 2
    /\ Cardinality(C4_Chain(bd_targets[2])) > 1

\* the end nodes of the enabled branches, sequence branch first
C5_BranchEnds ==
    (IF bd_params[1].seq # <<>>
     THEN <<bd_model.nodes[C4_Last(C4_Chain(<<"s">>))].name>> ELSE <<>>)
    \o (IF bd_params[1].cpg # <<>>
        THEN <<bd_model.nodes[C4_Last(C4_Chain(<<"c">>))].name>> ELSE <<>>)

C5_JointEnabled ==
    /\ bd_params[1].joint # <<>>
    /\ bd_params[1].joint[1].nb_hidden # NoneNum
    /\ bd_params[1].joint[1].nb_hidden > 0

\* the chains of the graph: the two branches, the joint branch, the heads
C5_Prefixes == {<<"s">>, <<"c">>, <<"j">>} \cup Range(bd_targets)

\* C5: in a graph that build returns with the joint branch enabled, j_h1 is
\* fed by the end nodes of the enabled branches (sequence first, then CpG)
\* and the first node of every head by the last joint node alone; with the
\* joint branch disabled there is no joint node and the first node of
\* every head is fed by the end nodes of the enabled branches.  Every node
\* after the first of a chain is fed by the preceding node of the chain
\* alone.
C5_Wiring ==
    bd_pc = "returned" =>
        /\ C5_JointEnabled =>
             LET joint == C4_Chain(<<"j">>)
             IN  /\ joint # {}
                 /\ bd_model.nodes[C4_First(joint)].name = <<"j", "_", "h", "1">>
                 /\ bd_model.nodes[C4_First(joint)].inputs = C5_BranchEnds
                 /\ \A i \in 1..Len(bd_targets) :
                      bd_model.nodes[C4_First(C4_Chain(bd_targets[i]))].inputs
                          = <<bd_model.nodes[C4_Last(joint)].name>>
        /\ ~C5_JointEnabled =>
             /\ C4_Chain(<<"j">>) = {}
             /\ \A i \in 1..Len(bd_targets) :
                  bd_model.nodes[C4_First(C4_Chain(bd_targets[i]))].inputs
                      = C5_BranchEnds
        /\ \A prefix \in C5_Prefixes :
             \A n \in C4_Chain(prefix) :
                 n # C4_First(C4_Chain(prefix)) =>
                     /\ n - 1 \in C4_Chain(prefix)
                     /\ bd_model.nodes[n].inputs = <<bd_model.nodes[n - 1].name>>

\* C5 witness: build returned a graph with both branches, the joint branch
\* and two targets.
C5_Witness ==
    /\ bd_pc = "returned"
    /\ bd_params[1].seq # <<>> /\ bd_params[1].cpg # <<>>
    /\ C5_JointEnabled
    /\ Len(bd_targets) = 2
    /\ Len(bd_model.nodes[C4_First(C4_Chain(<<"j">>))].inputs) = 2

\* the graph of the other case of C5: both branches, no joint branch
C5_WitnessNoJoint ==
    /\ bd_pc = "returned"
    /\ bd_params[1].seq # <<>> /\ bd_params[1].cpg # <<>>
    /\ ~C5_JointEnabled
    /\ Len(bd_targets) = 2
    /\ Len(bd_model.nodes[C4_First(C4_Chain(bd_targets[2]))].inputs) = 2

\* the loss names of the model that contain 'binary_crossentropy'
C7_ClaNames == {<<"binary_crossentropy">>, <<"weighted_", "binary_crossentropy">>}

C7_Outputs(P(_)) == {ev_loss[i][1] : i \in {j \in 1..Len(ev_loss) : P(ev_loss[j][2])}}

C7_Evals(funs) == {i \in 1..Len(ev_evals) : ev_evals[i].funs = funs}

\* C7: when eval_io returns and the first prediction array has no NaN,
\* the outputs whose loss name contains 'binary_crossentropy' are evaluated
\* in one call with the classification functions and mask MASK, all other
\* outputs in one call with the regression functions, an empty group is
\* not evaluated, and every output is in exactly one of the two calls;
\* when the first prediction array has a NaN, no file is written and
\* nothing is evaluated.
C7_EvalGroups ==
    ev_pc = "returned" =>
        IF ev_z_nan[1]
        THEN ev_files = <<>> /\ ev_evals = <<>>
        ELSE LET cla == C7_Outputs(LAMBDA v : v \in C7_ClaNames)
                 reg == C7_Outputs(LAMBDA v : v \notin C7_ClaNames)
             IN  /\ \A i \in 1..Len(ev_evals) :
                      /\ ev_evals[i].funs \in {"eval_funs", "eval_funs_regress"}
                      /\ ev_evals[i].keys # <<>>
                      /\ Cardinality(Range(ev_evals[i].keys)) = Len(ev_evals[i].keys)
                 /\ Cardinality(C7_Evals("eval_funs")) = IF cla = {} THEN 0 ELSE 1
                 /\ Cardinality(C7_Evals("eval_funs_regress")) =
                        IF reg = {} THEN 0 ELSE 1
                 /\ \A i \in C7_Evals("eval_funs") :
                      Range(ev_evals[i].keys) = cla /\ ev_evals[i].mask = MASK
                 /\ \A i \in C7_Evals("eval_funs_regress") :
                      Range(ev_evals[i].keys) = reg /\ ev_evals[i].mask = NoneNum
                 /\ \A i \in 1..Len(ev_loss) :
                      Cardinality({n \in 1..Len(ev_evals) :
                          ev_loss[i][1] \in Range(ev_evals[n].keys)}) = 1

\* C7 witness: eval_io returned after one classification and one
\* regression evaluation, the classification output having a loss whose
\* name only contains 'binary_crossentropy'.
C7_Witness ==
    /\ ev_pc = "returned"
    /\ Len(ev_evals) = 2
    /\ \E i \in 1..Len(ev_loss) :
         /\ ev_loss[i][2] = L_wbce
         /\ ev_loss[i][1] \in Range(ev_evals[1].keys)
    /\ ev_files = <<"_z.h5", "_cla.csv", "_reg.csv">>

\* the other case of C7: a NaN in the first prediction array
C7_WitnessNaN ==
    /\ ev_pc = "returned"
    /\ ev_z_nan[1]
    /\ ev_files = <<>>

\* C8: model_from_list takes the JSON loader, with the first name as the
\* architecture file and the second as the weights file, exactly when it
\* is given two names, and otherwise unpickles the first name; right after
\* model_to_pickle(m, p) the call with [p] returns m, and right after
\* model_to_json(m, j, w) with a weights file w other than j the call with
\* [j, w] returns m.
C8_ModelFromList ==
    io_ret # NotLoaded =>
        /\ (io_ret.how = "json") <=> (Len(io_fnames) = 2)
        /\ Len(io_fnames) # 2 => io_ret.how = "pickle"
        /\ (Len(io_fnames) = 2 /\ io_ret.exc = None) =>
              /\ io_fs[io_fnames[1]].kind = "json"
              /\ io_fs[io_fnames[2]].kind = "h5"
              /\ io_ret.model = [arch |-> io_fs[io_fnames[1]].arch,
                                 weights |-> io_fs[io_fnames[2]].weights]
        /\ (Len(io_fnames) # 2 /\ io_ret.exc = None) =>
              /\ Len(io_fnames) > 0
              /\ io_fs[io_fnames[1]].kind = "pickle"
              /\ io_ret.model = [arch |-> io_fs[io_fnames[1]].arch,
                                 weights |-> io_fs[io_fnames[1]].weights]
        /\ (io_last.op = "pickle" /\ io_fnames = <<io_last.p1>>) =>
              io_ret.exc = None /\ io_ret.model = io_last.model
        /\ (io_last.op = "json" /\ io_last.p2 # None /\ io_last.p2 # io_last.p1
            /\ io_fnames = <<io_last.p1, io_last.p2>>) =>
              io_ret.exc = None /\ io_ret.model = io_last.model

\* C8 witness: a model written by model_to_json with a weights file, over a
\* pickle of the other model, was read back from the two names.
C8_Witness ==
    /\ io_last.op = "json"
    /\ io_nwrites = 2
    /\ io_fnames = <<io_last.p1, io_last.p2>>
    /\ io_ret.how = "json"
    /\ io_ret.exc = None
    /\ io_ret.model = io_last.model

\* the pickle round trip of C8
C8_WitnessPickle ==
    /\ io_last.op = "pickle"
    /\ io_fnames = <<io_last.p1>>
    /\ io_ret.how = "pickle"
    /\ io_ret.model = io_last.model
    /\ io_ret.exc = None

\* every occurrence of the event b in the log of main follows one of a
C9_Before(a, b) ==
    \A j \in 1..Len(mn_log) :
        mn_log[j] = b => \E i \in 1..(j - 1) : mn_log[i] = a

C9_Order ==
    /\ C9_Before("model.json", "fit")
    /\ C9_Before("model_weights.h5", "fit")
    /\ C9_Before("fit", "load_weights")
    /\ C9_Before("load_weights", "model_to_pickle")
    /\ C9_Before("load_weights", "predict(train)")
    /\ C9_Before("load_weights", "predict(val)")

C9_Callbacks ==
    {"EarlyStopping", "ModelCheckpoint(last)", "ModelCheckpoint(best)",
     "LearningRateScheduler", "PerformanceLogger"} \subseteq Range(mn_fit.cbacks)

C9_Loaded ==
    mn_pc \in {"pickle", "eval_train", "eval_val", "done"} =>
        /\ "load_weights" \in Range(mn_log)
        /\ (mn_pc = "done" /\ mn_opts.out_pickle) => mn_files.pickle # NoneNum
        /\ (mn_pc = "done" /\ "train" \in mn_opts.eval) => mn_z.train # NoneNum
        /\ (mn_pc = "done" /\ "val" \in mn_opts.eval) => mn_z.val # NoneNum

C9_Best ==
    /\ mn_files.pickle # NoneNum => mn_files.pickle = mn_files.weights
    /\ mn_z.train # NoneNum => mn_z.train = mn_files.weights
    /\ mn_z.val # NoneNum => mn_z.val = mn_files.weights

\* C9: in a run of main that called model.fit, model.json and
\* model_weights.h5 were written before the call; the callbacks passed to
\* fit include early stopping, the last-weights checkpoint, the best-only
\* checkpoint, the learning-rate scheduler and the performance logger;
\* after fit the weights of model_weights.h5 are loaded into the model
\* before the model is pickled and before the training and validation
\* predictions are computed, so the pickled model and both predictions
\* carry the weights held by model_weights.h5, not those of the last epoch.
C9_TrainingOrder ==
    /\ C9_Order
    /\ C9_Best
    /\ mn_fit.called => /\ mn_files.json
                        /\ C9_Callbacks
                        /\ C9_Loaded

\* C9 witness: a run finished in which the last epoch did not improve on
\* the best checkpoint, and the model was pickled and evaluated on both sets.
C9_Witness ==
    /\ mn_pc = "done"
    /\ mn_ret = Return(0)
    /\ mn_fit.called
    /\ mn_epoch = MaxEpochs
    /\ mn_files.weights_last # mn_files.weights
    /\ mn_files.pickle = mn_files.weights
    /\ mn_z.train = mn_files.weights
    /\ mn_z.val = mn_files.weights

\* C10: when --lr is given, the learning rate of the optimizer at the call
\* of model.fit is the --lr value, whatever the other options are.
C10_LrAtFit ==
    (mn_fit.called /\ mn_opts.lr # NoneNum) => mn_fit.lr = <<mn_opts.lr, 0>>

\* the case of C10: --lr given and the batch size found by adjust_batch_size
C10_AutoTuned ==
    /\ mn_fit.called
    /\ mn_opts.lr # NoneNum
    /\ "adjust_batch_size" \in Range(mn_log)

\* main is past "# Define batch size"
C11_PastBatchSize ==
    \/ mn_pc \in {"fit", "epoch", "load", "pickle", "eval_train", "eval_val"}
    \/ mn_ret.code # NoneNum

C11_AutoTuning == "adjust_batch_size" \in Range(mn_log)

C11_Return1 ==
    /\ (C11_AutoTuning /\ mn_batch_size = NoneNum) =>
          /\ mn_pc = "done"
          /\ mn_ret = Return(1)
          /\ ~mn_fit.called
          /\ "fit" \notin Range(mn_log)
          /\ mn_files.pickle = NoneNum
          /\ mn_z = [train |-> NoneNum, val |-> NoneNum]
    /\ mn_ret = Return(1) => (C11_AutoTuning /\ mn_batch_size = NoneNum)

C11_Sizes ==
    (C11_AutoTuning /\ mn_fit.called) =>
        /\ mn_fit.batch_size \in BatchSizes
        /\ mn_fit.batch_size <= mn_env.nb_sample

C11_Precedence ==
    mn_opts.batch_size # NoneNum =>
        /\ ~C11_AutoTuning
        /\ mn_fit.called => mn_fit.batch_size = mn_opts.batch_size

C11_AutoWhen ==
    (C11_PastBatchSize /\ mn_opts.batch_size = NoneNum)
    => (C11_AutoTuning <=> (mn_opts.batch_size_auto \/ ~mn_opts.params))

\* C11: when the batch size is auto-tuned and adjust_batch_size returns
\* (None, None), main returns 1 and neither calls model.fit nor pickles
\* nor evaluates; when model.fit is called after auto-tuning, its batch
\* size is one of 512, 256, 128, 64, 32, 16 and is at most the number of
\* training samples; a --batch_size given on the command line always takes
\* precedence over auto-tuning; without it, auto-tuning is used exactly
\* when --batch_size_auto is set or no parameter file was given.
C11_BatchSize ==
    /\ C11_Return1
    /\ C11_Sizes
    /\ C11_Precedence
    /\ C11_AutoWhen

\* the case of C11 that fails: --batch_size 0 and the batch size auto-tuned
C11_ZeroBatchSize ==
    /\ mn_opts.batch_size = 0
    /\ C11_AutoTuning
    /\ mn_fit.called
    /\ mn_fit.batch_size # mn_opts.batch_size

\* C12: when neither --model nor --params is given, main stops at the
\* assertion 'Parameter file needed!' and never calls build_model with
\* model_params = None.
C12_ParameterFileNeeded ==
    (~mn_opts.model /\ ~mn_opts.params /\ mn_pc # "build") =>
        /\ mn_ret = Raise("AssertionError")
        /\ "build_model(None)" \notin Range(mn_log)

\* the case of C12: build_model was called with None and net.build raised
C12_BuildModelNone ==
    /\ ~mn_opts.model
    /\ ~mn_opts.params
    /\ mn_log = <<"build_model(None)">>
    /\ mn_ret = Raise("AttributeError")

\* the positions in pl_events of the calls of kind k for the batch b
C13_Calls(k, n, b) ==
    {j \in 1..Len(pl_events) :
        pl_events[j][1] = k /\ pl_events[j][2] = n /\ pl_events[j][3] = b}

\* the batches are taken in increasing order: the calls of f come with the
\* batch indices 0, 1, 2, ... and the bounds of make_batches
C13_Increasing ==
    /\ \A b \in 0..(pl_index - 1) : Cardinality(C13_Calls("f", 0, b)) = 1
    /\ \A j \in 1..Len(pl_events) :
          pl_events[j][1] = "f" =>
              /\ pl_events[j][3] < pl_index
              /\ pl_events[j][4] = pl_batches[pl_events[j][3] + 1][1]
              /\ pl_events[j][5] = pl_batches[pl_events[j][3] + 1][2]
              /\ \A i \in 1..(j - 1) :
                    pl_events[i][1] = "f" => pl_events[i][3] < pl_events[j][3]

\* each sample index belongs to exactly one batch
C13_Partition ==
    pl_pc # "start" =>
        \A r \in 0..(pl_nb_sample - 1) :
            Cardinality({i \in 1..Len(pl_batches) :
                pl_batches[i][1] <= r /\ r < pl_batches[i][2]}) = 1

\* every callback is called once per batch, with (batch_index, number of
\* batches), before f is applied to the batch
C13_Callbacks ==
    /\ \A b \in 0..(pl_index - 1), n \in 1..pl_nb_cb :
          /\ Cardinality(C13_Calls("callback", n, b)) = 1
          /\ \A j \in C13_Calls("callback", n, b), i \in C13_Calls("f", 0, b) :
                j < i /\ pl_events[j][4] = Len(pl_batches)
    /\ \A j \in 1..Len(pl_events) :
          pl_events[j][1] = "callback" =>
              pl_events[j][2] \in 1..pl_nb_cb /\ pl_events[j][3] < pl_index

\* the returned arrays: nb_sample rows, the rows of a batch hold the
\* output of f for that batch, every row written once
C13_Returned ==
    (pl_fun = "predict_loop" /\ pl_pc = "returned") =>
        /\ pl_index = Len(pl_batches)
        /\ pl_nb_sample > 0 => Len(pl_ret) = pl_nb_out
        /\ \A o \in 1..Len(pl_ret) :
              /\ Len(pl_ret[o]) = pl_nb_sample
              /\ \A r \in 1..pl_nb_sample : pl_nwritten[o][r] = 1
              /\ \A i \in 1..Len(pl_batches) :
                    SubSeq(pl_ret[o], pl_batches[i][1] + 1, pl_batches[i][2])
                    = as_list(f(batch_ids(pl_batches[i][1], pl_batches[i][2]),
                                pl_nb_out, pl_bare), pl_bare)[o]

\* with zero samples f is never called and the result is the empty mapping
C13_NoSample ==
    pl_nb_sample = 0 =>
        /\ \A j \in 1..Len(pl_events) : pl_events[j][1] # "f"
        /\ pl_ret = <<>>

\* C13: predict_loop takes the batches in increasing order; every sample
\* index 0..nb_sample-1 belongs to exactly one batch; every callback is
\* called exactly once per batch, with (batch_index, number of batches),
\* before the prediction function is applied to the batch; every returned
\* array has nb_sample rows, of which the rows batch_start..batch_end-1
\* hold the output of that batch, and no row is written twice; with zero
\* samples the prediction function is never called and the result is an
\* empty mapping.
C13_PredictLoop ==
    /\ C13_Increasing
    /\ C13_Partition
    /\ C13_Callbacks
    /\ C13_Returned
    /\ C13_NoSample

\* C13 witness: predict_loop returned two outputs after three batches, the
\* last one shorter than batch_size, with two callbacks.
C13_Witness ==
    /\ pl_fun = "predict_loop"
    /\ pl_pc = "returned"
    /\ pl_nb_sample = 5
    /\ pl_batch_size = 2
    /\ pl_nb_cb = 2
    /\ Len(pl_ret) = 2
    /\ Len(pl_batches) = 3
    /\ pl_ret[2][5] = <<4, 2>>

\* the other case of C13: no sample, nothing predicted
C13_WitnessNoSample ==
    /\ pl_fun = "predict_loop"
    /\ pl_pc = "returned"
    /\ pl_nb_sample = 0
    /\ pl_events = <<>>
    /\ pl_ret = <<>>
====
